---- MODULE Spec2Model ----
(***************************************************************************)
(* turingmachine-rs: the tape (a linked list of cells with a cursor) and   *)
(* the engine that drives a caller-supplied transition function over it.   *)
(* Cells are named by their allocation order 1, 2, ...; link 0 is None.    *)
(***************************************************************************)
EXTENDS Integers, Sequences, FiniteSets, TLC

\* ------------------------------------------------------------------ bounds
MaxCells == 3
MaxInit == 2
\* the longest input handed to the replace-ones and exactly-two machines
MaxInput == 4
\* the largest numerator and denominator handed to the divisibility machine
MaxN == 6
MaxK == 4

\* ------------------------------------------------------------- value sets
\* Option::None of a link (Node.prev, Node.next)
Nil == 0
\* Option::None of a value returned by int_step
None == "None"
\* the alphabet the tape is instantiated with
Alphabet == {"Delta", "One"}
\* the states of the client machine the engine is instantiated with
MachineStates == {"Q0", "Q1", "InvalidSyntax"}
\* enum Move
Move == {"Left", "Right"}

LeftMsg == "Went left side of the tape!"
UpgradeMsg == "Unable to upgrade"
AuthorMsg == "Something went wrong"

RECURSIVE SeqsUpTo(_)
SeqsUpTo(n) ==
  IF n = 0 THEN {<<>>}
  ELSE LET S == SeqsUpTo(n - 1)
       IN  S \cup {Append(s, a) : s \in {t \in S : Len(t) = n - 1}, a \in Alphabet}

VARIABLES
  pc,          \* where the client is: unborn, ready, running, consumed, panicked
  entry,       \* the entry point the client uses: "new" or "run_until_end"
  args,        \* the arguments of the pending constructor / run_until_end call
  empty,       \* TuringTape.empty
  prev,        \* Node.prev of every cell
  next,        \* Node.next of every cell
  data,        \* Node.data of every cell
  last,        \* TuringTape.last
  cursor,      \* TuringTape.cursor
  state,       \* run_states' start_state (the current machine state)
  end_states,  \* run_states' end_states
  op,          \* the last call made
  ret,         \* what that call returned, or the panic it raised
  before,      \* the cursor, its symbol, the cell count and the call before, when that call was made, and its argument
  call         \* the last int_step invocation of the run in progress or just returned

vars == <<pc, entry, args, empty, prev, next, data, last, cursor, state,
          end_states, op, ret, before, call>>

\* ------------------------------------------------------------------- tape
\* The tape as one value
Tape == [empty |-> empty, prev |-> prev, next |-> next, data |-> data,
         last |-> last, cursor |-> cursor]

\* Node::new(start, None) held by last and cursor
FirstNode(e, start) ==
  [empty |-> e, prev |-> <<Nil>>, next |-> <<Nil>>, data |-> <<start>>,
   last |-> 1, cursor |-> 1]

\* append that gives the new cell no prev link
append_no_prev(T, token) ==
  LET new_node == Len(T.data) + 1
  IN  [T EXCEPT !.prev = Append(@, Nil),
                !.next = [Append(@, Nil) EXCEPT ![T.last] = new_node],
                !.data = Append(@, token),
                !.last = new_node]

\* append that leaves the old last cell's next link unset
append_unlinked(T, token) ==
  LET new_node == Len(T.data) + 1
  IN  [T EXCEPT !.prev = Append(@, T.last),
                !.next = Append(@, Nil),
                !.data = Append(@, token),
                !.last = new_node]

\* append that makes the old last cell its own right neighbour
append_self_link(T, token) ==
  LET new_node == Len(T.data) + 1
  IN  [T EXCEPT !.prev = Append(@, T.last),
                !.next = [Append(@, Nil) EXCEPT ![T.last] = T.last],
                !.data = Append(@, token),
                !.last = new_node]

\* TuringTape::append
append(T, token) ==
  LET new_node == Len(T.data) + 1
  IN  [T EXCEPT !.prev = Append(@, T.last),
                !.next = [Append(@, Nil) EXCEPT ![T.last] = new_node],
                !.data = Append(@, token),
                !.last = new_node]

\* TuringTape::new: the start cell, then every token of initial appended
RECURSIVE AppendAll(_, _)
AppendAll(T, initial) ==
  IF initial = <<>> THEN T
  ELSE AppendAll(append(T, Head(initial)), Tail(initial))

new(e, start, initial) == AppendAll(FirstNode(e, start), initial)

\* The cells a strong reference to c keeps alive: c and its prev chain
RECURSIVE Owned(_, _)
Owned(T, c) == IF c = Nil THEN {} ELSE {c} \cup Owned(T, T.prev[c])

\* Weak::upgrade succeeds on a cell some strong reference still keeps alive
Alive(T, c) == c \in Owned(T, T.last) \cup Owned(T, T.cursor)

\* A call's outcome: the tape after it, what it returned, the panic if any
Ok(T, v) == [tape |-> T, val |-> v, panic |-> None]
Panic(T, msg) == [tape |-> T, val |-> None, panic |-> msg]

get_cursor(T) == T.data[T.cursor]

\* set_cursor that hands back the value it was given
set_cursor_new(T, value) ==
  Ok([T EXCEPT !.data[T.cursor] = value], value)

\* set_cursor that writes into the last cell
set_cursor_last(T, value) ==
  Ok([T EXCEPT !.data[T.last] = value], T.data[T.cursor])

set_cursor(T, value) ==
  Ok([T EXCEPT !.data[T.cursor] = value], T.data[T.cursor])

\* step_right that looks for the next link on last, not on the cursor
step_right_of_last(T) ==
  LET nx == T.next[T.last]
  IN  IF nx # Nil
      THEN IF Alive(T, nx)
           THEN LET T1 == [T EXCEPT !.cursor = nx] IN Ok(T1, get_cursor(T1))
           ELSE Panic(T, UpgradeMsg)
      ELSE LET T0 == append(T, T.empty)
               T1 == [T0 EXCEPT !.cursor = T0.last]
           IN  Ok(T1, get_cursor(T1))

\* step_right that reads the symbol before it moves
step_right_stale(T) ==
  LET nx == T.next[T.cursor]
  IN  IF nx # Nil
      THEN IF Alive(T, nx)
           THEN Ok([T EXCEPT !.cursor = nx], get_cursor(T))
           ELSE Panic(T, UpgradeMsg)
      ELSE LET T0 == append(T, T.empty)
           IN  Ok([T0 EXCEPT !.cursor = T0.last], get_cursor(T))

step_right(T) ==
  LET nx == T.next[T.cursor]
  IN  IF nx # Nil
      THEN IF Alive(T, nx)
           THEN LET T1 == [T EXCEPT !.cursor = nx] IN Ok(T1, get_cursor(T1))
           ELSE Panic(T, UpgradeMsg)
      ELSE LET T0 == append(T, T.empty)
               T1 == [T0 EXCEPT !.cursor = T0.last]
           IN  Ok(T1, get_cursor(T1))

\* step_left that stays on the start cell instead of panicking
step_left_clamp(T) ==
  LET pv == T.prev[T.cursor]
      T1 == [T EXCEPT !.cursor = IF pv # Nil THEN pv ELSE T.cursor]
  IN  Ok(T1, get_cursor(T1))

\* step_left that follows the prev link of last, not of the cursor
step_left_of_last(T) ==
  LET pv == T.prev[T.last]
  IN  IF pv # Nil
      THEN LET T1 == [T EXCEPT !.cursor = pv] IN Ok(T1, get_cursor(T1))
      ELSE Panic(T, LeftMsg)

\* step_left that wraps to the last cell instead of panicking
step_left_wrap(T) ==
  LET pv == T.prev[T.cursor]
      T1 == [T EXCEPT !.cursor = IF pv # Nil THEN pv ELSE T.last]
  IN  Ok(T1, get_cursor(T1))

step_left(T) ==
  LET pv == T.prev[T.cursor]
  IN  IF pv # Nil
      THEN LET T1 == [T EXCEPT !.cursor = pv] IN Ok(T1, get_cursor(T1))
      ELSE Panic(T, LeftMsg)

\* the first loop stopping one cell early
RECURSIVE MoveAlmostAllLeft(_)
MoveAlmostAllLeft(o) ==
  IF o.panic # None THEN o
  ELSE IF o.tape.prev[o.tape.cursor] # Nil /\ o.tape.prev[o.tape.prev[o.tape.cursor]] # Nil
       THEN MoveAlmostAllLeft(step_left(o.tape))
  ELSE o

\* From<TuringTape> for Vec: the first loop, all the way to the left
RECURSIVE MoveAllLeft(_)
MoveAllLeft(o) ==
  IF o.panic # None THEN o
  ELSE IF o.tape.prev[o.tape.cursor] # Nil THEN MoveAllLeft(step_left(o.tape))
  ELSE o

\* From<TuringTape> for Vec: the second loop, back to the right, pushing
RECURSIVE CollectRight(_, _)
CollectRight(o, v) ==
  IF o.panic # None THEN o
  ELSE IF o.tape.next[o.tape.cursor] # Nil
       THEN CollectRight(step_right(o.tape), Append(v, get_cursor(o.tape)))
       ELSE Ok(o.tape, Append(v, get_cursor(o.tape)))

\* the conversion without its last lines: the cursor stays on the last cell
into_vec_no_restore(T) == CollectRight(MoveAllLeft(Ok(T, None)), <<>>)

\* From<TuringTape> for Vec: both loops, then the cursor put back
into_vec(T) ==
  LET cursor_initial == T.cursor
      o == CollectRight(MoveAllLeft(Ok(T, None)), <<>>)
  IN  IF o.panic # None THEN o
      ELSE Ok([o.tape EXCEPT !.cursor = cursor_initial], o.val)

\* ----------------------------------------------------------------- engine
\* What int_step may hand back for (state, token): three Options, or a
\* pair its author left undefined, which either panics or falls through
\* to the sink state, writing the token back and staying.
IntStepResults(token) ==
  [kind : {"defined"}, st : MachineStates \cup {None},
   sym : Alphabet \cup {None}, mv : Move \cup {None}]
  \cup {[kind |-> "panic", st |-> None, sym |-> None, mv |-> None]}
  \cup {[kind |-> "fallthrough", st |-> "InvalidSyntax", sym |-> token, mv |-> None]}

\* the loop test with its negation lost
contains_not(E, s) == s \notin E

\* The loop test of run_states
contains(E, s) == s \in E

\* step that drops the state int_step returned
step_keep_state(T, s, r) ==
  LET T1 == IF r.sym # None THEN set_cursor(T, r.sym).tape ELSE T
      o  == IF r.mv = "Left" THEN step_left(T1)
            ELSE IF r.mv = "Right" THEN step_right(T1)
            ELSE Ok(T1, None)
  IN  [tape |-> o.tape, state |-> s, panic |-> o.panic]

\* step that moves the cursor before it writes
step_move_first(T, s, r) ==
  LET s1 == IF r.st # None THEN r.st ELSE s
      o  == IF r.mv = "Left" THEN step_left(T)
            ELSE IF r.mv = "Right" THEN step_right(T)
            ELSE Ok(T, None)
      T1 == IF r.sym # None THEN set_cursor(o.tape, r.sym).tape ELSE o.tape
  IN  [tape |-> T1, state |-> s1, panic |-> o.panic]

\* TuringStates::step after int_step returned r: the state, the write, the move
step(T, s, r) ==
  LET s1 == IF r.st # None THEN r.st ELSE s
      T1 == IF r.sym # None THEN set_cursor(T, r.sym).tape ELSE T
      o  == IF r.mv = "Left" THEN step_left(T1)
            ELSE IF r.mv = "Right" THEN step_right(T1)
            ELSE Ok(T1, None)
  IN  [tape |-> o.tape, state |-> s1, panic |-> o.panic]

\* ---------------------------------------------------------------- actions
SetTape(T) ==
  /\ empty' = T.empty
  /\ prev' = T.prev
  /\ next' = T.next
  /\ data' = T.data
  /\ last' = T.last
  /\ cursor' = T.cursor

Value(v) == [kind |-> "value", val |-> v]
Raised(msg) == [kind |-> "panic", val |-> msg]
NoRet == [kind |-> "none", val |-> None]
Here(T) == [cursor |-> T.cursor, sym |-> get_cursor(T), cells |-> Len(T.data),
            op |-> op, arg |-> None]
Nowhere == [cursor |-> Nil, sym |-> None, cells |-> 0, op |-> "none", arg |-> None]
NoCall == [state |-> None, token |-> None, result |-> None]

\* A call on the tape, given arg, that ran to its end, or panicked
FinishWith(name, o, arg) ==
  /\ op' = name
  /\ before' = [Here(Tape) EXCEPT !.arg = arg]
  /\ SetTape(o.tape)
  /\ IF o.panic # None
     THEN pc' = "panicked" /\ ret' = Raised(o.panic)
     ELSE pc' = "ready" /\ ret' = Value(o.val)
  /\ call' = NoCall
  /\ UNCHANGED <<entry, args, state, end_states>>

\* A call on the tape without an argument
Finish(name, o) == FinishWith(name, o, None)

Init ==
  /\ pc = "unborn"
  /\ entry \in {"new", "run_until_end"}
  /\ \E e \in Alphabet, s \in Alphabet, i \in SeqsUpTo(MaxInit) :
       \/ /\ entry = "new"
          /\ args = [empty |-> e, start |-> s, initial |-> i,
                     start_state |-> None, end_states |-> {}]
       \/ /\ entry = "run_until_end"
          /\ \E q \in MachineStates, E \in SUBSET MachineStates :
               args = [empty |-> e, start |-> s, initial |-> i,
                       start_state |-> q, end_states |-> E]
  /\ empty = None /\ prev = <<>> /\ next = <<>> /\ data = <<>>
  /\ last = Nil /\ cursor = Nil
  /\ state = None /\ end_states = {}
  /\ op = "none" /\ ret = NoRet /\ before = Nowhere /\ call = NoCall

\* TuringTape::new(empty, start, initial); the arguments are moved into the tape
New ==
  /\ pc = "unborn"
  /\ SetTape(new(args.empty, args.start, args.initial))
  /\ pc' = "ready"
  /\ op' = "new"
  /\ ret' = NoRet
  /\ before' = Nowhere
  /\ call' = NoCall
  /\ args' = [args EXCEPT !.empty = None, !.start = None, !.initial = <<>>]
  /\ UNCHANGED <<entry, state, end_states>>

Client == pc = "ready" /\ entry = "new"

GetCursor ==
  /\ Client
  /\ Finish("get_cursor", Ok(Tape, get_cursor(Tape)))

SetCursor ==
  /\ Client
  /\ \E value \in Alphabet : FinishWith("set_cursor", set_cursor(Tape, value), value)

StepRight ==
  /\ Client
  /\ next[cursor] # Nil \/ Len(data) < MaxCells
  /\ Finish("step_right", step_right(Tape))

StepLeft ==
  /\ Client
  /\ Finish("step_left", step_left(Tape))

\* tape.run_states(start_state, end_states) is entered
RunStates ==
  /\ pc = "ready"
  /\ \/ /\ entry = "new"
        /\ \E q \in MachineStates, E \in SUBSET MachineStates :
             state' = q /\ end_states' = E
        /\ args' = args
     \/ /\ entry = "run_until_end"
        /\ op = "new"
        /\ state' = args.start_state
        /\ end_states' = args.end_states
        /\ args' = [args EXCEPT !.start_state = None, !.end_states = {}]
  /\ pc' = "running"
  /\ op' = "run_states"
  /\ ret' = NoRet
  /\ before' = Here(Tape)
  /\ call' = NoCall
  /\ UNCHANGED <<entry, empty, prev, next, data, last, cursor>>

\* the loop testing end_states only after its first step
RunStepFirst ==
  /\ pc = "running"
  /\ op = "run_states" \/ ~contains(end_states, state)
  /\ LET token == get_cursor(Tape)
     IN  \E r \in IntStepResults(token) :
           /\ r.mv = "Right" => (next[cursor] # Nil \/ Len(data) < MaxCells)
           /\ op' = "step"
           /\ before' = Here(Tape)
           /\ call' = [state |-> state, token |-> token, result |-> r]
           /\ IF r.kind = "panic"
              THEN /\ pc' = "panicked"
                   /\ ret' = Raised(AuthorMsg)
                   /\ UNCHANGED <<empty, prev, next, data, last, cursor, state>>
              ELSE LET o == step(Tape, state, r)
                   IN  /\ SetTape(o.tape)
                       /\ state' = o.state
                       /\ IF o.panic # None
                          THEN pc' = "panicked" /\ ret' = Raised(o.panic)
                          ELSE pc' = "running" /\ ret' = NoRet
  /\ UNCHANGED <<entry, args, end_states>>

\* One iteration of run_states' loop: start_state.step(self), which hands
\* int_step the symbol under the cursor and applies what it returns
RunStep ==
  /\ pc = "running"
  /\ ~contains(end_states, state)
  /\ LET token == get_cursor(Tape)
     IN  \E r \in IntStepResults(token) :
           /\ r.mv = "Right" => (next[cursor] # Nil \/ Len(data) < MaxCells)
           /\ op' = "step"
           /\ before' = Here(Tape)
           /\ call' = [state |-> state, token |-> token, result |-> r]
           /\ IF r.kind = "panic"
              THEN /\ pc' = "panicked"
                   /\ ret' = Raised(AuthorMsg)
                   /\ UNCHANGED <<empty, prev, next, data, last, cursor, state>>
              ELSE LET o == step(Tape, state, r)
                   IN  /\ SetTape(o.tape)
                       /\ state' = o.state
                       /\ IF o.panic # None
                          THEN pc' = "panicked" /\ ret' = Raised(o.panic)
                          ELSE pc' = "running" /\ ret' = NoRet
  /\ UNCHANGED <<entry, args, end_states>>

\* run_states leaves its loop and returns start_state
RunReturn ==
  /\ pc = "running"
  /\ contains(end_states, state)
  /\ pc' = "ready"
  /\ op' = "returned"
  /\ ret' = Value(state)
  /\ before' = Here(Tape)
  /\ call' = call
  /\ IF entry = "new"
     THEN state' = None /\ end_states' = {}
     ELSE UNCHANGED <<state, end_states>>
  /\ UNCHANGED <<entry, args, empty, prev, next, data, last, cursor>>

\* Vec::from(tape), which consumes the tape; run_until_end pairs the
\* vector with the end state
IntoVec ==
  /\ pc = "ready"
  /\ entry = "run_until_end" => op = "returned"
  /\ LET o == into_vec(Tape)
     IN  /\ SetTape(o.tape)
         /\ IF o.panic # None
            THEN pc' = "panicked" /\ ret' = Raised(o.panic)
            ELSE /\ pc' = "consumed"
                 /\ ret' = IF entry = "run_until_end"
                           THEN Value(<<state, o.val>>)
                           ELSE Value(o.val)
  /\ op' = "into"
  /\ before' = Here(Tape)
  /\ call' = NoCall
  /\ UNCHANGED <<entry, args, state, end_states>>

Next ==
  \/ New
  \/ GetCursor
  \/ SetCursor
  \/ StepRight
  \/ StepLeft
  \/ RunStates
  \/ RunStep
  \/ RunReturn
  \/ IntoVec

Spec == Init /\ [][Next]_vars

\* ----------------------------------------------------- the test machines
\* A result of int_step in the engine's shape: state, write and move, each
\* optional (a state left as it is, no write, Move::Stay are None)
Result(st, sym, mv) == [kind |-> "defined", st |-> st, sym |-> sym, mv |-> mv]
AuthorPanic == [kind |-> "panic", st |-> None, sym |-> None, mv |-> None]

\* the inputs of the two tests: sequences of Zero and One
RECURSIVE Inputs(_)
Inputs(n) ==
  IF n = 0 THEN {<<>>}
  ELSE LET S == Inputs(n - 1)
       IN  S \cup {Append(s, a) : s \in {t \in S : Len(t) = n - 1}, a \in {"Zero", "One"}}

\* replace-ones that steps over a One without writing
replace_ones_int_step_skip(s, token) ==
  CASE s = "Start" -> Result("Started", None, "Right")
    [] s = "ValidEnd" -> AuthorPanic
    [] OTHER ->
         CASE token = "Zero" -> Result(None, None, "Right")
           [] token = "One" -> Result(None, None, "Right")
           [] OTHER -> Result("ValidEnd", None, None)

\* tests/replace-ones.rs: impl TuringStates<Alphabet> for States
replace_ones_int_step(s, token) ==
  CASE s = "Start" -> Result("Started", None, "Right")
    [] s = "ValidEnd" -> AuthorPanic
    [] OTHER ->
         CASE token = "Zero" -> Result(None, None, "Right")
           [] token = "One" -> Result(None, "Zero", "Right")
           [] OTHER -> Result("ValidEnd", None, None)

\* exactly-two that accepts at the end of the input after one One
exactly_two_int_step_one(s, token) ==
  CASE s = "Start" -> Result("FoundNone", None, "Right")
    [] s = "InvalidEnd" -> AuthorPanic
    [] OTHER ->
         CASE token = "Zero" -> Result(None, None, "Right")
           [] token = "One" ->
                CASE s = "FoundNone" -> Result("FoundFirst", None, "Right")
                  [] s = "FoundFirst" -> Result("FoundSecond", None, "Right")
                  [] s = "FoundSecond" -> Result("FoundMore", None, "Right")
                  [] s = "FoundMore" -> Result("FoundMore", None, "Right")
                  [] OTHER -> AuthorPanic
           [] OTHER ->
                CASE s = "FoundFirst" -> Result("ValidEnd", None, None)
                  [] OTHER -> Result("InvalidEnd", None, None)

\* tests/exactly-two.rs: impl TuringStates<Alphabet> for States
exactly_two_int_step(s, token) ==
  CASE s = "Start" -> Result("FoundNone", None, "Right")
    [] s = "InvalidEnd" -> AuthorPanic
    [] OTHER ->
         CASE token = "Zero" -> Result(None, None, "Right")
           [] token = "One" ->
                CASE s = "FoundNone" -> Result("FoundFirst", None, "Right")
                  [] s = "FoundFirst" -> Result("FoundSecond", None, "Right")
                  [] s = "FoundSecond" -> Result("FoundMore", None, "Right")
                  [] s = "FoundMore" -> Result("FoundMore", None, "Right")
                  [] OTHER -> AuthorPanic
           [] OTHER ->
                CASE s = "FoundSecond" -> Result("ValidEnd", None, None)
                  [] OTHER -> Result("InvalidEnd", None, None)

\* ------------------------------------------------ the divisibility machine
\* the walk to the denominator that takes an empty denominator for a number
div_scan_no_null(s, t) ==
  CASE s = "Start" ->
         IF t = "Delta" THEN Result("MovingToCenter", t, "Right")
         ELSE Result("Start", t, "Right")
    [] s = "MovingToCenter" ->
         CASE t = "One" -> Result("MovingToCenter", t, "Right")
           [] t = "Delta" -> Result("CheckingDivByNull", t, "Right")
           [] OTHER -> Result("InvalidSyntax", t, None)
    [] s = "CheckingDivByNull" -> Result("CycleStart", t, "Left")

\* examples/divisibility.rs, States::step: walking to the denominator
div_scan(s, t) ==
  CASE s = "Start" ->
         IF t = "Delta" THEN Result("MovingToCenter", t, "Right")
         ELSE Result("Start", t, "Right")
    [] s = "MovingToCenter" ->
         CASE t = "One" -> Result("MovingToCenter", t, "Right")
           [] t = "Delta" -> Result("CheckingDivByNull", t, "Right")
           [] OTHER -> Result("InvalidSyntax", t, None)
    [] s = "CheckingDivByNull" ->
         IF t = "Delta" THEN Result("DivByNull", t, None)
         ELSE Result("CycleStart", t, "Left")

\* States::step: one cycle marks as many Ones of the numerator as the
\* denominator has
div_cycle(s, t) ==
  CASE s = "CycleStart" -> Result("CheckingLeftovers", t, "Left")
    [] s = "CheckingLeftovers" ->
         CASE t = "Delta" -> Result("NoLeftoversP1", t, "Right")
           [] t = "One" -> Result("FoundLeftovers", t, "Right")
           [] OTHER -> Result("CheckingLeftovers", t, "Left")
    [] s = "FoundLeftovers" ->
         IF t = "Delta" THEN Result("SearchingDen", t, "Right")
         ELSE Result("FoundLeftovers", t, "Right")
    [] s = "SearchingDen" ->
         CASE t = "Delta" -> Result("CycleEnd", t, "Left")
           [] t = "One" -> Result("Found1InDenominator", "MarkedOne", "Left")
           [] OTHER -> Result("SearchingDen", t, "Right")
    [] s = "Found1InDenominator" ->
         IF t = "Delta" THEN Result("SearchingNum", t, "Left")
         ELSE Result("Found1InDenominator", t, "Left")
    [] s = "SearchingNum" ->
         CASE t = "Delta" -> Result("LeftOverP1", t, "Right")
           [] t = "One" -> Result("Found1InNuminator", "MarkedOne", "Right")
           [] OTHER -> Result("SearchingNum", t, "Left")
    [] s = "Found1InNuminator" ->
         IF t = "Delta" THEN Result("SearchingDen", t, "Right")
         ELSE Result("Found1InNuminator", t, "Right")
    [] s = "CycleEnd" ->
         CASE t = "Delta" -> Result("CycleStart", t, None)
           [] t = "MarkedOne" -> Result("CycleEnd", "One", "Left")
           [] OTHER -> AuthorPanic

\* the walk back to the end of the tape that leaves the marks in place
div_restore_keep_marks(s, t) ==
  CASE s = "LeftOverP1" ->
         IF t = "Delta" THEN Result("LeftOverP2", t, "Right")
         ELSE Result("LeftOverP1", t, "Right")
    [] s = "LeftOverP2" ->
         IF t = "Delta" THEN Result("NonDivisibleReturn", t, "Right")
         ELSE Result("LeftOverP2", t, "Right")
    [] s = "NoLeftoversP1" ->
         IF t = "Delta" THEN Result("NoLeftoversP2", t, "Right")
         ELSE Result("NoLeftoversP1", t, "Right")
    [] s = "NoLeftoversP2" ->
         IF t = "Delta" THEN Result("DivisibleReturn", t, "Right")
         ELSE Result("NoLeftoversP2", t, "Right")

\* States::step: the walk back to the end of the tape, which turns every
\* marked One into a One again
div_restore(s, t) ==
  CASE s = "LeftOverP1" ->
         CASE t = "Delta" -> Result("LeftOverP2", t, "Right")
           [] t = "MarkedOne" -> Result("LeftOverP1", "One", "Right")
           [] OTHER -> Result("LeftOverP1", t, "Right")
    [] s = "LeftOverP2" ->
         CASE t = "Delta" -> Result("NonDivisibleReturn", t, "Right")
           [] t = "MarkedOne" -> Result("LeftOverP2", "One", "Right")
           [] OTHER -> Result("LeftOverP2", t, "Right")
    [] s = "NoLeftoversP1" ->
         CASE t = "Delta" -> Result("NoLeftoversP2", t, "Right")
           [] t = "MarkedOne" -> Result("NoLeftoversP1", "One", "Right")
           [] OTHER -> Result("NoLeftoversP1", t, "Right")
    [] s = "NoLeftoversP2" ->
         CASE t = "Delta" -> Result("DivisibleReturn", t, "Right")
           [] t = "MarkedOne" -> Result("NoLeftoversP2", "One", "Right")
           [] OTHER -> Result("NoLeftoversP2", t, "Right")

\* the output that writes One for both answers
div_output_one(s, t) ==
  CASE s = "DivisibleReturn" -> Result("DivHalt", t, None)
    [] s = "DivHalt" -> Result("DivDelta", "Halt", "Right")
    [] s = "DivDelta" -> Result("DivOutput", "Delta", "Right")
    [] s = "DivOutput" -> Result("Done", "One", "Right")
    [] s = "NonDivisibleReturn" -> Result("NonDivHalt", t, None)
    [] s = "NonDivHalt" -> Result("NonDivDelta", "Halt", "Right")
    [] s = "NonDivDelta" -> Result("NonDivOutput", "Delta", "Right")
    [] s = "NonDivOutput" -> Result("Done", "One", "Right")

\* States::step: the output, Halt, Delta and the answer bit
div_output(s, t) ==
  CASE s = "DivisibleReturn" -> Result("DivHalt", t, None)
    [] s = "DivHalt" -> Result("DivDelta", "Halt", "Right")
    [] s = "DivDelta" -> Result("DivOutput", "Delta", "Right")
    [] s = "DivOutput" -> Result("Done", "One", "Right")
    [] s = "NonDivisibleReturn" -> Result("NonDivHalt", t, None)
    [] s = "NonDivHalt" -> Result("NonDivDelta", "Halt", "Right")
    [] s = "NonDivDelta" -> Result("NonDivOutput", "Delta", "Right")
    [] s = "NonDivOutput" -> Result("Done", "Zero", "Right")

\* examples/divisibility.rs: impl TuringStates<Alphabet> for States
div_step(s, t) ==
  CASE s \in {"Start", "MovingToCenter", "CheckingDivByNull"} -> div_scan(s, t)
    [] s \in {"CycleStart", "CheckingLeftovers", "FoundLeftovers", "SearchingDen",
              "Found1InDenominator", "SearchingNum", "Found1InNuminator",
              "CycleEnd"} -> div_cycle(s, t)
    [] s \in {"LeftOverP1", "LeftOverP2", "NoLeftoversP1", "NoLeftoversP2"} ->
         div_restore(s, t)
    [] s \in {"DivisibleReturn", "DivHalt", "DivDelta", "DivOutput",
              "NonDivisibleReturn", "NonDivHalt", "NonDivDelta",
              "NonDivOutput"} -> div_output(s, t)
    [] OTHER -> Result("InvalidSyntax", t, None)

\* the int_step of the machine the client runs
int_step(machine, s, token) ==
  CASE machine = "replace-ones" -> replace_ones_int_step(s, token)
    [] machine = "exactly-two" -> exactly_two_int_step(s, token)
    [] machine = "divisibility" -> div_step(s, token)

\* One iteration of run_states' loop with the client's machine
MachineStep ==
  /\ pc = "running"
  /\ ~contains(end_states, state)
  /\ LET token == get_cursor(Tape)
         r == int_step(args.machine, state, token)
     IN  /\ op' = "step"
         /\ before' = Here(Tape)
         /\ call' = [state |-> state, token |-> token, result |-> r]
         /\ IF r.kind = "panic"
            THEN /\ pc' = "panicked"
                 /\ ret' = Raised(AuthorMsg)
                 /\ UNCHANGED <<empty, prev, next, data, last, cursor, state>>
            ELSE LET o == step(Tape, state, r)
                 IN  /\ SetTape(o.tape)
                     /\ state' = o.state
                     /\ IF o.panic # None
                        THEN pc' = "panicked" /\ ret' = Raised(o.panic)
                        ELSE pc' = "running" /\ ret' = NoRet
  /\ UNCHANGED <<entry, args, end_states>>

\* The client state before a test's run_until_end call on input i; the
\* test keeps the literal it passed (input) to compare the result with
TestCall(machine, ends, i) ==
  /\ pc = "unborn"
  /\ entry = "run_until_end"
  /\ args = [empty |-> "Delta", start |-> "Delta", initial |-> i,
             start_state |-> "Start", end_states |-> ends,
             machine |-> machine, input |-> i]
  /\ empty = None /\ prev = <<>> /\ next = <<>> /\ data = <<>>
  /\ last = Nil /\ cursor = Nil
  /\ state = None /\ end_states = {}
  /\ op = "none" /\ ret = NoRet /\ before = Nowhere /\ call = NoCall

InitReplaceOnes ==
  \E i \in Inputs(MaxInput) : TestCall("replace-ones", {"ValidEnd"}, i)

InitExactlyTwo ==
  \E i \in Inputs(MaxInput) :
    TestCall("exactly-two", {"FoundMore", "InvalidEnd", "ValidEnd"}, i)

NextTest ==
  \/ New
  \/ RunStates
  \/ MachineStep
  \/ RunReturn
  \/ IntoVec

\* The steps of a machine's run, from the creation of the tape to the
\* return of run_states
Run == New \/ RunStates \/ MachineStep \/ RunReturn

\* the run goes on as long as it can: nothing suspends the one thread
SpecReplaceOnes == InitReplaceOnes /\ [][NextTest]_vars /\ WF_vars(Run)

SpecExactlyTwo == InitExactlyTwo /\ [][NextTest]_vars /\ WF_vars(Run)

\* n repetitions of One
Unary(n) == [j \in 1..n |-> "One"]

\* main's initial vector: Delta 1^n Delta 1^k Delta
DivInitial(n, k) ==
  <<"Delta">> \o Unary(n) \o <<"Delta">> \o Unary(k) \o <<"Delta">>

\* examples/divisibility.rs, main, before TuringTape::new; main keeps n and k
InitDivisibility ==
  \E n \in 0..MaxN, k \in 0..MaxK :
    /\ pc = "unborn"
    /\ entry = "main"
    /\ args = [empty |-> "Delta", start |-> "StartToken",
               initial |-> DivInitial(n, k),
               start_state |-> "Start",
               end_states |-> {"InvalidSyntax", "DivByNull", "Done"},
               machine |-> "divisibility", input |-> DivInitial(n, k),
               n |-> n, k |-> k]
    /\ empty = None /\ prev = <<>> /\ next = <<>> /\ data = <<>>
    /\ last = Nil /\ cursor = Nil
    /\ state = None /\ end_states = {}
    /\ op = "none" /\ ret = NoRet /\ before = Nowhere /\ call = NoCall

\* main's call tape.debug_run_states(Start, end states): the run loop of
\* run_states, entered with main's arguments
DebugRunStates ==
  /\ pc = "ready"
  /\ entry = "main"
  /\ op = "new"
  /\ state' = args.start_state
  /\ end_states' = args.end_states
  /\ args' = [args EXCEPT !.start_state = None, !.end_states = {}]
  /\ pc' = "running"
  /\ op' = "run_states"
  /\ ret' = NoRet
  /\ before' = Here(Tape)
  /\ call' = NoCall
  /\ UNCHANGED <<entry, empty, prev, next, data, last, cursor>>

NextDivisibility ==
  \/ New
  \/ DebugRunStates
  \/ MachineStep
  \/ RunReturn

\* a run that has entered the loop goes on as long as it can
SpecDivisibility ==
  InitDivisibility /\ [][NextDivisibility]_vars /\ WF_vars(MachineStep \/ RunReturn)

\* ----------------------------------------------------------------- claims
\* C1: run_states returns only a state that is in end_states, and returns
\* it without touching the tape; while the current state is in end_states
\* the only thing the run does is return, and while it is not the run
\* cannot return: another step is always possible and is all it does.
C1_RunStatesLoop ==
  /\ [](pc = "running" /\ state \notin end_states => ENABLED RunStep)
  /\ [][pc = "running" =>
          IF state \in end_states
          THEN /\ pc' = "ready"
               /\ op' = "returned"
               /\ ret' = Value(state)
               /\ Tape' = Tape
          ELSE /\ op' = "step"
               /\ pc' \in {"running", "panicked"}]_vars

\* a run_until_end run that stepped to the third cell and then returned
C1_Witness ==
  /\ entry = "run_until_end"
  /\ op = "returned"
  /\ pc = "ready"
  /\ cursor = 3
  /\ ret.val \in end_states

\* C2: an engine step hands int_step the current state and the symbol
\* under the cursor; the returned symbol goes into the cell that was read,
\* the cursor then moves by the returned movement, the returned state is
\* adopted, and no other existing cell changes (a move right off the last
\* cell adds one cell holding empty).
C2_StepEffect ==
  [][op' = "step" /\ call'.result.kind # "panic" =>
       LET r == call'.result
           n == Len(data)
       IN  /\ call'.state = state
           /\ call'.token = data[cursor]
           /\ state' = IF r.st = None THEN state ELSE r.st
           /\ data'[cursor] = IF r.sym = None THEN data[cursor] ELSE r.sym
           /\ \A i \in (1..n) \ {cursor} : data'[i] = data[i]
           /\ empty' = empty
           /\ IF r.mv = "Right"
              THEN /\ cursor' = cursor + 1
                   /\ next'[cursor] = cursor'
                   /\ pc' = "running"
                   /\ IF cursor = n
                      THEN Len(data') = n + 1 /\ data'[n + 1] = empty
                      ELSE Len(data') = n
              ELSE IF r.mv = "Left"
              THEN /\ Len(data') = n
                   /\ IF cursor > 1
                      THEN cursor' = cursor - 1 /\ prev[cursor] = cursor' /\ pc' = "running"
                      ELSE cursor' = cursor /\ pc' = "panicked"
              ELSE /\ Len(data') = n
                   /\ cursor' = cursor
                   /\ pc' = "running"]_vars

\* a step that wrote a symbol other than the one read, moved left and
\* changed state
C2_Witness ==
  /\ op = "step"
  /\ pc = "running"
  /\ call.result.kind = "defined"
  /\ call.result.mv = "Left"
  /\ call.result.sym \notin {None, call.token}
  /\ call.result.st \notin {None, call.state}
  /\ data[before.cursor] = call.result.sym

\* C3: a freshly constructed tape has its cursor on the start cell, and
\* its conversion to a sequence is the start symbol followed by the
\* initial sequence, with no other cell.
C3_FreshTape ==
  [][pc = "unborn" =>
       LET T == Tape'
       IN  /\ T.cursor = 1
           /\ T.prev[T.cursor] = Nil
           /\ get_cursor(T) = args.start
           /\ Len(T.data) = 1 + Len(args.initial)
           /\ into_vec(T).panic = None
           /\ into_vec(T).val = <<args.start>> \o args.initial]_vars

\* a fresh tape built from an initial sequence of two symbols
C3_Witness ==
  /\ op = "new"
  /\ pc = "ready"
  /\ Len(data) = 3
  /\ data[2] # data[3]

\* C4: step_left called with the cursor on the start cell panics with the
\* boundary message; it returns no symbol and the cursor is where it was.
C4_StepLeftAtStart ==
  (op = "step_left" /\ before.cursor = 1) =>
    /\ pc = "panicked"
    /\ ret = Raised(LeftMsg)
    /\ cursor = before.cursor
    /\ prev[cursor] = Nil

\* step_left was called on the start cell of a tape of several cells
C4_Witness ==
  /\ op = "step_left"
  /\ before.cursor = 1
  /\ pc = "panicked"
  /\ Len(data) > 1

\* C5 as claimed: a run whose int_step was just asked for a pair its
\* author left undefined ends in a rejection (here, charitably, any
\* panic); it does not come back to its caller as a halt in an end state.
C5_AsClaimed ==
  (/\ op \in {"step", "returned"}
   /\ call.state # None
   /\ call.result.kind \in {"panic", "fallthrough"}) =>
    pc \in {"panicked", "running"}

\* C5 amended: for a pair its author left undefined the engine does what
\* int_step does and nothing of its own. If int_step panics the run ends
\* with that panic, tape and state untouched, and returns no state. If it
\* falls through to the sink state, the engine adopts the sink state with
\* the tape as it was and goes on like after any other step: the run
\* returns the sink state as an ordinary halt when it is in end_states
\* and steps again when it is not.
C5_UndefinedPair ==
  /\ [][op' = "step" /\ call'.result.kind = "panic" =>
          /\ pc' = "panicked"
          /\ ret' = Raised(AuthorMsg)
          /\ Tape' = Tape
          /\ state' = state]_vars
  /\ [][op' = "step" /\ call'.result.kind = "fallthrough" =>
          /\ pc' = "running"
          /\ ret' = NoRet
          /\ state' = "InvalidSyntax"
          /\ Tape' = Tape]_vars
  /\ [][op = "step" /\ pc = "running" /\ call.result.kind = "fallthrough" =>
          IF "InvalidSyntax" \in end_states
          THEN pc' = "ready" /\ ret' = Value("InvalidSyntax") /\ Tape' = Tape
          ELSE op' = "step" /\ call'.state = "InvalidSyntax"]_vars

\* the sink state was adopted from another state by a fall-through and
\* is one of the end states
C5_Witness ==
  /\ op = "step"
  /\ pc = "running"
  /\ call.result.kind = "fallthrough"
  /\ call.state # "InvalidSyntax"
  /\ state \in end_states

\* C6 as claimed: a run stopped by a move left off the start cell hands
\* its caller an error result that names the state and the position.
C6_AsClaimed ==
  (op = "step" /\ pc = "panicked" /\ ret.val = LeftMsg) =>
    /\ ret.kind = "error"
    /\ "state" \in DOMAIN ret
    /\ "position" \in DOMAIN ret

\* C6 amended: a move left requested on the start cell during a run stops
\* the run at once with the panic "Went left side of the tape!", the
\* cursor still on the start cell; no transition follows a panic, no state
\* is returned, and the panic carries only that message.
C6_BoundaryPanic ==
  /\ [][pc # "panicked"]_vars
  /\ [][op' = "step" /\ call'.result.mv = "Left" /\ prev[cursor] = Nil =>
          /\ pc' = "panicked"
          /\ ret' = Raised(LeftMsg)
          /\ DOMAIN ret' = {"kind", "val"}
          /\ cursor' = cursor
          /\ Len(data') = Len(data)]_vars

\* a run panicked on a move left from the start cell, some cells to its right
C6_Witness ==
  /\ op = "step"
  /\ pc = "panicked"
  /\ ret = Raised(LeftMsg)
  /\ call.result.mv = "Left"
  /\ cursor = 1
  /\ Len(data) > 1
  /\ state \notin end_states

\* C7: step_right never fails. With a cell to the right the cursor moves
\* onto it and no cell is created; on the last cell exactly one cell
\* holding empty is appended and the cursor moves onto it. The value
\* returned is the symbol then under the cursor.
C7_StepRight ==
  [][op' = "step_right" =>
       LET n == Len(data)
       IN  /\ pc' = "ready"
           /\ ret' = Value(data'[cursor'])
           /\ SubSeq(data', 1, n) = data
           /\ empty' = empty
           /\ IF next[cursor] # Nil
              THEN /\ cursor' = next[cursor]
                   /\ Len(data') = n
                   /\ last' = last
              ELSE /\ Len(data') = n + 1
                   /\ data'[n + 1] = empty
                   /\ cursor' = n + 1
                   /\ last' = n + 1
                   /\ prev'[n + 1] = cursor
                   /\ next'[cursor] = n + 1
                   /\ next'[n + 1] = Nil]_vars

\* step_right appended a cell whose symbol differs from the one it left
C7_Witness ==
  /\ op = "step_right"
  /\ pc = "ready"
  /\ Len(data) = before.cells + 1
  /\ cursor = Len(data)
  /\ ret = Value(empty)
  /\ before.sym # empty

\* C8: step_left called right after step_right puts the cursor back on
\* the cell it was on before the two calls and returns the symbol that was
\* read there.
C8_RightThenLeft ==
  [][op = "step_right" /\ pc = "ready" /\ op' = "step_left" =>
       /\ pc' = "ready"
       /\ cursor' = before.cursor
       /\ ret' = Value(before.sym)
       /\ get_cursor(Tape') = before.sym
       /\ Len(data') = Len(data)]_vars

\* step_left came back, right after a step_right, to a cell that is not
\* the start cell
C8_Witness ==
  /\ op = "step_left"
  /\ before.op = "step_right"
  /\ pc = "ready"
  /\ cursor = 2
  /\ data[2] # data[3]

\* C9: the conversion to a sequence leaves the cursor on its cell, creates
\* no cell and changes no symbol or link; converting what it leaves behind
\* gives the same sequence again and reading it gives the same symbol.
C9_IntoObservational ==
  [][op' = "into" =>
       LET T == Tape'
           v == IF entry = "run_until_end" THEN ret'.val[2] ELSE ret'.val
       IN  /\ pc' = "consumed"
           /\ T = Tape
           /\ into_vec(T).val = v
           /\ get_cursor(T) = get_cursor(Tape)]_vars

\* a tape of three cells was converted with the cursor on its middle cell
C9_Witness ==
  /\ op = "into"
  /\ pc = "consumed"
  /\ entry = "new"
  /\ cursor = 2
  /\ Len(data) = 3
  /\ Len(ret.val) = 3

\* C10: run_until_end returns the state run_states returned, a member of
\* end_states, with every cell of the tape as it is at the halt, from the
\* start cell to the last cell in order, wherever the cursor is.
C10_RunUntilEnd ==
  [][op' = "into" /\ entry = "run_until_end" =>
       /\ op = "returned"
       /\ pc' = "consumed"
       /\ ret.val \in end_states
       /\ ret'.val[1] = ret.val
       /\ ret'.val[2] = data
       /\ Len(ret'.val[2]) = Len(data)
       /\ \A i \in 1..Len(data) : i < Len(data) => next[i] = i + 1]_vars

\* run_until_end halted with the cursor on the middle one of three cells,
\* the cell to its right holding a symbol other than empty
C10_Witness ==
  /\ pc = "consumed"
  /\ entry = "run_until_end"
  /\ cursor = 2
  /\ Len(data) = 3
  /\ ret.val[2] = data
  /\ data[3] # empty

\* C12: set_cursor(v) returns the symbol that was under the cursor and
\* leaves v there, with the cursor and the number of cells as they were; a
\* get_cursor called right after it returns v.
C12_SetCursor ==
  /\ [](op = "set_cursor" =>
          /\ pc = "ready"
          /\ ret = Value(before.sym)
          /\ cursor = before.cursor
          /\ Len(data) = before.cells
          /\ data[cursor] = before.arg)
  /\ [][op = "set_cursor" /\ op' = "get_cursor" =>
          /\ ret' = Value(before.arg)
          /\ cursor' = cursor]_vars

\* set_cursor replaced the symbol of the second cell by another one
C12_Witness ==
  /\ op = "set_cursor"
  /\ cursor = 2
  /\ before.arg # before.sym
  /\ ret = Value(before.sym)

\* The cells met following prev links from c, at most n of them
RECURSIVE LeftChain(_, _)
LeftChain(c, n) ==
  IF c = Nil \/ n = 0 THEN <<>> ELSE <<c>> \o LeftChain(prev[c], n - 1)

\* C17: once the tape exists, following left links from last passes the
\* cursor cell and ends, after every cell exactly once, at the start cell,
\* the only cell without a left link.
C17_CursorOnChain ==
  pc # "unborn" =>
    LET n == Len(data)
        chain == LeftChain(last, n + 1)
    IN  /\ Len(chain) = n
        /\ \E i \in 1..n : chain[i] = cursor
        /\ chain[n] = 1
        /\ prev[1] = Nil
        /\ \A i \in 1..n : chain[i] = n + 1 - i
        /\ last = n

\* after calls on the tape, three cells, the cursor two links left of last
C17_Witness ==
  /\ pc = "ready"
  /\ op = "step_left"
  /\ Len(data) = 3
  /\ last = 3
  /\ cursor = 1
  /\ before.cells = 3

\* C18: the number of cells never decreases. It grows, by exactly one,
\* only in step_right with the cursor on the last cell (called directly or
\* for a move right of the engine), and always grows then; every step_right
\* moves the cursor one cell right and every step_left that does not panic
\* moves it one cell left.
C18_CellCount ==
  [][pc # "unborn" =>
       LET n == Len(data)
           right == op' = "step_right" \/ (op' = "step" /\ call'.result.mv = "Right")
           left == op' = "step_left" \/ (op' = "step" /\ call'.result.mv = "Left")
       IN  /\ Len(data') \in {n, n + 1}
           /\ Len(data') = n + 1 <=> (right /\ cursor = last)
           /\ right => cursor' = cursor + 1 /\ prev'[cursor'] = cursor
           /\ left /\ pc' # "panicked" => cursor' = cursor - 1 /\ next'[cursor'] = cursor
           /\ ~right /\ ~left => cursor' = cursor]_vars

\* step_right moved from the first to the second of three cells
C18_Witness ==
  /\ op = "step_right"
  /\ before.cursor = 1
  /\ cursor = 2
  /\ before.cells = 3
  /\ Len(data) = 3

\* C19: the symbol of an existing cell changes only by a write at the
\* cursor: set_cursor, or an engine step whose int_step returned a symbol,
\* changes no cell but the one under the cursor; no other call changes
\* the symbol of any existing cell.
C19_DataFrame ==
  [][pc # "unborn" =>
       LET n == Len(data)
           write == \/ op' = "set_cursor"
                    \/ op' = "step" /\ call'.result.sym # None
       IN  /\ \A i \in 1..n : i # cursor => data'[i] = data[i]
           /\ ~write => data'[cursor] = data[cursor]]_vars

\* set_cursor changed the middle cell of three, with the cells around it
\* holding the symbol it replaced
C19_Witness ==
  /\ op = "set_cursor"
  /\ cursor = 2
  /\ Len(data) = 3
  /\ before.sym # before.arg
  /\ data[1] = before.sym
  /\ data[3] = before.sym

\* C20: a run entered with a state that is already in end_states returns
\* that state at once: int_step is not called, and the tape, its cursor
\* and its cells are as they were when run_states was entered.
C20_StartInEndStates ==
  [][op = "run_states" /\ pc = "running" /\ state \in end_states =>
       /\ op' = "returned"
       /\ pc' = "ready"
       /\ ret' = Value(state)
       /\ call' = NoCall
       /\ Tape' = Tape
       /\ before' = [before EXCEPT !.op = "run_states"]]_vars

\* run_states returned without a step on a tape with the cursor off the
\* start cell
C20_Witness ==
  /\ op = "returned"
  /\ before.op = "run_states"
  /\ call = NoCall
  /\ cursor = 2
  /\ ret.val \in MachineStates

\* The input with every One replaced by Zero
ReplacedOnes(i) == [j \in 1..Len(i) |-> IF i[j] = "One" THEN "Zero" ELSE i[j]]

\* C13: on every input of Zero and One after a Delta start cell the
\* replace-ones machine comes to ValidEnd, and run_until_end returns it
\* with Delta, the input with every One replaced by Zero, Delta. No step
\* panics or moves left, and every step moves right except the one that
\* halts, so no cell is read twice.
C13_ReplaceOnes ==
  /\ <>(pc = "ready" /\ op = "returned" /\ state = "ValidEnd")
  /\ [](pc # "panicked")
  /\ [](pc = "consumed" =>
          ret = Value(<<"ValidEnd",
                        <<"Delta">> \o ReplacedOnes(args.input) \o <<"Delta">>>>))
  /\ [][op' = "step" =>
          /\ call'.token = data[cursor]
          /\ \/ cursor' = cursor + 1 /\ call'.result.mv = "Right"
             \/ cursor' = cursor /\ state' \in end_states]_vars

\* the run on an input of at least three symbols, Zero and One among
\* them, has returned
C13_Witness ==
  /\ pc = "consumed"
  /\ Len(args.input) >= 3
  /\ \E j, k \in 1..Len(args.input) : args.input[j] = "One" /\ args.input[k] = "Zero"
  /\ ret.val[1] = "ValidEnd"

\* The number of Ones in the input
RECURSIVE Ones(_)
Ones(i) == IF i = <<>> THEN 0 ELSE (IF Head(i) = "One" THEN 1 ELSE 0) + Ones(Tail(i))

\* C14: on every input of Zero and One after a Delta start cell the
\* exactly-two machine halts, without a panic, in ValidEnd if the input
\* holds exactly two Ones, in FoundMore if it holds more and in InvalidEnd
\* if it holds fewer; the sequence returned is Delta and the unchanged
\* input, followed by at most one Delta.
C14_ExactlyTwo ==
  /\ <>(pc = "ready" /\ op = "returned" /\ state \in end_states)
  /\ [](pc # "panicked")
  /\ [](pc = "consumed" =>
          LET i == args.input
              whole == <<"Delta">> \o i
          IN  /\ ret.val[1] = IF Ones(i) = 2 THEN "ValidEnd"
                              ELSE IF Ones(i) > 2 THEN "FoundMore"
                              ELSE "InvalidEnd"
              /\ ret.val[1] = "ValidEnd" <=> Ones(i) = 2
              /\ ret.val[2] \in {whole, whole \o <<"Delta">>}
              /\ ret.val[1] # "FoundMore" => ret.val[2] = whole \o <<"Delta">>)

\* the run on an input with exactly two Ones and a Zero has returned
C14_Witness ==
  /\ pc = "consumed"
  /\ Ones(args.input) = 2
  /\ Len(args.input) >= 3
  /\ ret.val[1] = "ValidEnd"

\* Whether k divides n, for k >= 1
Divides(k, n) == n % k = 0

\* The cells the module documentation gives for the end of a run, after
\* the start token: Delta 1^n Delta 1^k Delta Halt Delta and the answer bit
DivOutputCells(n, k) ==
  <<"StartToken">> \o DivInitial(n, k)
    \o <<"Halt", "Delta", IF Divides(k, n) THEN "One" ELSE "Zero">>

\* C15 as stated: when the divisibility machine has halted on n and
\* k >= 1, the tape is the start token, Delta 1^n Delta 1^k Delta and then
\* Halt, Delta and the answer bit as its trailing cells.
C15_AsClaimed ==
  op = "returned" /\ args.k >= 1 => data = DivOutputCells(args.n, args.k)

\* C15: for every n >= 0 and k >= 1 the divisibility machine, once started,
\* halts without a panic, and then the tape is the start token, Delta 1^n Delta 1^k Delta
\* with every One restored, Halt, Delta, the answer bit (One if k divides
\* n, Zero if not) and one more empty cell, which the move right after the
\* answer bit materialised and on which the cursor rests.
C15_DivOutput ==
  /\ (pc = "running" /\ args.k >= 1) ~> (op = "returned")
  /\ [](args.k >= 1 => pc # "panicked")
  /\ [](op = "returned" /\ args.k >= 1 =>
          /\ data = DivOutputCells(args.n, args.k) \o <<"Delta">>
          /\ cursor = Len(data)
          /\ cursor = last)

\* the run on n = 6, k = 3 has halted with the answer One
C15_Witness ==
  /\ op = "returned"
  /\ args.n = 6 /\ args.k = 3
  /\ data[Len(data) - 1] = "One"

\* C16 as stated: the terminal state tells the answer, that is the state
\* Done, in which the run on n = 6, k = 3 ends, is returned exactly when k
\* divides n.
C16_AsClaimed ==
  op = "returned" /\ args.k >= 1 => (ret.val = "Done" <=> Divides(args.k, args.n))

\* C16: for k >= 1 the divisibility machine returns the same terminal
\* state Done whether k divides n or not; the answer is the symbol written
\* last, left of the cursor: One if k divides n and Zero if not. Only k = 0
\* ends in another terminal state, DivByNull.
C16_TerminalState ==
  op = "returned" =>
    /\ ret = Value(state)
    /\ args.k = 0 => ret.val = "DivByNull"
    /\ args.k >= 1 =>
         /\ ret.val = "Done"
         /\ data[cursor - 1] = IF Divides(args.k, args.n) THEN "One" ELSE "Zero"

\* the run on n = 6, k = 4 has halted in Done with the answer Zero
C16_Witness ==
  /\ op = "returned"
  /\ args.n = 6 /\ args.k = 4
  /\ ret.val = "Done"
  /\ data[cursor - 1] = "Zero"

\* C21: for every n >= 0 and k >= 0 the divisibility machine, once
\* started, comes to one of its end states InvalidSyntax, DivByNull, Done
\* and run_states returns it. No step panics, so the CycleEnd panic and the
\* panic of step_left on the start cell are never reached, and every move
\* left starts on a cell that has a left neighbour. The state returned is
\* DivByNull exactly when k = 0, and it is never InvalidSyntax.
C21_DivTerminates ==
  /\ (pc = "running") ~>
       (op = "returned" /\ ret.val \in {"InvalidSyntax", "DivByNull", "Done"})
  /\ [](pc # "panicked")
  /\ [](op = "returned" =>
          /\ ret.val = "DivByNull" <=> args.k = 0
          /\ ret.val # "InvalidSyntax")
  /\ [][op' = "step" /\ call'.result.mv = "Left" =>
          prev[cursor] # Nil /\ cursor' = prev[cursor]]_vars

\* the run on a numerator n >= 1 and the denominator k = 0 has returned
\* DivByNull, with the cursor on the cell after the empty denominator
C21_Witness ==
  /\ op = "returned"
  /\ args.k = 0 /\ args.n >= 1
  /\ ret.val = "DivByNull"
  /\ cursor = last

\* C22: in every state of a constructed tape, every cell but the one last
\* holds has a right link, that link refers to a cell the chain of left
\* links from last keeps alive, and the left link of that cell leads back;
\* the cell last holds has no right link. So the upgrade in step_right
\* always succeeds: no call ends in the panic "Unable to upgrade".
C22_RightLinks ==
  /\ pc # "unborn" =>
       /\ last \in 1..Len(data)
       /\ next[last] = Nil
       /\ \A c \in 1..Len(data) :
            c # last =>
              /\ next[c] # Nil
              /\ next[c] \in Owned(Tape, last)
              /\ Alive(Tape, next[c])
              /\ prev[next[c]] = c
  /\ ret # Raised(UpgradeMsg)

\* step_right has followed an existing right link, upgrading it, on a tape
\* of at least three cells
C22_Witness ==
  /\ op = "step_right"
  /\ pc = "ready"
  /\ Len(data) = before.cells
  /\ Len(data) >= 3
  /\ before.cursor # Nil
  /\ cursor = next[before.cursor]
  /\ cursor # last

====
